---- MODULE Spec2Model ----
(***************************************************************************)
(* Model of src/app.js, the command-line personal-finance chat agent.      *)
(*                                                                         *)
(* The program is one async function, main(), run on Node's event loop:    *)
(* module evaluation (lines 12-61), startup (lines 65-93), then the        *)
(* read-eval-print loop (lines 95-105).  The agent runtime (AgentExecutor, *)
(* line 75), the vector store (line 29) and readline (line 82) are         *)
(* libraries; they are modelled by the behaviour app.js configures and     *)
(* relies on, and a call that can fail is a nondeterministic choice        *)
(* between its outcomes.                                                   *)
(*                                                                         *)
(* Strings are sequences of one-character strings, so that toLowerCase     *)
(* and join are computed rather than assumed.                              *)
(***************************************************************************)
EXTENDS Integers, Sequences, FiniteSets

\* ------------------------------------------------------------------ bounds

\* Turns (executor.invoke calls) explored in one run of the process.
MaxTurns == 3

\* Chunks a transactions file splits into, in the shell specification.
MaxDocs == 2

\* Chunks held by the index in the specification of the retrieval tool.
MaxChunks == 6

\* Similarity scores range over 0..MaxScore.
MaxScore == 2

\* ------------------------------------------------------- program constants

\* AgentExecutor({ maxIterations: 10 })
maxIterations == 10

\* vectorStore.similaritySearch(input, 5)
K == 5

\* .join('\n---\n')
Delimiter == <<"\n", "-", "-", "-", "\n">>

\* userPrompt.toLowerCase() === 'exit'
EXIT == <<"e", "x", "i", "t">>

\* ------------------------------------------------------------------ inputs

\* Value of a line variable before any line was read.
NoLine == <<"<none>">>

\* Lines the user may type (readline strips the line terminator only).
InputLines ==
    { <<"e", "x", "i", "t">>,
      <<"E", "X", "I", "T">>,
      <<"E", "x", "i", "t">>,
      <<" ", "e", "x", "i", "t">>,
      <<"e", "x", "i", "t", " ">>,
      <<>>,
      <<"q">> }

\* Text of the i-th chunk the splitter produces: never empty, different for
\* each position, of different lengths, some holding a delimiter character.
Letters == <<"a", "b", "c", "d", "e", "f", "g", "h", "i", "j">>

ChunkText(i) ==
    IF i % 3 = 0 THEN <<"-", Letters[i]>> ELSE <<Letters[i]>>

\* The chunks of a file that splits into n chunks, in order of appearance.
Chunks(n) == [i \in 1..n |-> ChunkText(i)]

Scores == 0..MaxScore

\* ----------------------------------------------------------- pure functions

\* String.prototype.toLowerCase on the characters of the model's alphabet.
LowerChar(c) ==
    CASE c = "E" -> "e"
      [] c = "X" -> "x"
      [] c = "I" -> "i"
      [] c = "T" -> "t"
      [] c = "Q" -> "q"
      [] OTHER -> c

toLowerCase(s) == [i \in 1..Len(s) |-> LowerChar(s[i])]

\* Mutant of IsExit: a case-sensitive comparison.
IsExitCaseSensitive(line) == line = EXIT

\* Line 97: userPrompt.toLowerCase() === 'exit'
IsExit(line) == toLowerCase(line) = EXIT

\* Array.prototype.join
RECURSIVE join(_, _)
join(arr, sep) ==
    IF arr = <<>> THEN <<>>
    ELSE IF Len(arr) = 1 THEN arr[1]
    ELSE arr[1] \o sep \o join(Tail(arr), sep)

\* The k most similar entries of the index, most similar first; entries of
\* equal score keep their insertion order.
RECURSIVE TopK(_, _, _)
TopK(rem, sc, k) ==
    IF k = 0 \/ rem = {} THEN <<>>
    ELSE LET best == CHOOSE i \in rem :
                        \A j \in rem : sc[i] > sc[j] \/ (sc[i] = sc[j] /\ i <= j)
         IN  <<best>> \o TopK(rem \ {best}, sc, k - 1)

\* vectorStore.similaritySearch(input, k): the documents of the top k.
similaritySearch(store, sc, k) ==
    LET top == TopK(DOMAIN store, sc, k)
    IN  [p \in 1..Len(top) |-> store[top[p]]]

\* Mutant of func: one result too few is asked for.
funcFour(store, sc) == join(similaritySearch(store, sc, K - 1), Delimiter)

\* Lines 39-42: results.map((doc) => doc.pageContent).join('\n---\n');
\* a document of the model is its pageContent.
func(store, sc) == join(similaritySearch(store, sc, K), Delimiter)

\* -------------------------------------------------------------------- state

VARIABLES
    pc,            \* where main() is: "start", "load", "embed", "prompt",
                   \* "awaitInvoke", "exited"; "tool" in the tool specification
    exitCode,      \* -1 while the process runs, then its exit code
    error,         \* what ended the process abnormally, or "none"
    documents,     \* result of loadTransactionChunks()
    vectorStore,   \* the chunks held by the index
    built,         \* number of times the index was built
    rlClosed,      \* the readline interface is closed
    stdinEnded,    \* standard input has ended
    userPrompt,    \* the line read by the current askQuestion
    firstLine,     \* the first line read in this run
    input,         \* what the current executor.invoke was given
    exec,          \* the executor: "idle", "plan", "tool", "done", "failed"
    iterations,    \* the executor's iteration count in this turn
    modelCalls,    \* chat-model calls made in this turn
    toolRequests,  \* tool calls the model requested in this turn
    searchCalls,   \* similaritySearch calls made in this turn
    scores,        \* similarity of each chunk to the tool's input (kept in
                   \* the tool specification only)
    observation,   \* what the tool returned last
    result,        \* "none", "answer" or "fallback": result.output's kind
    shown,         \* the last message on standard output
    prompts,       \* 'You: ' prompts issued
    invokes,       \* executor.invoke calls started
    printed,       \* results printed
    network        \* the remote operations requested so far in this run:
                   \* "embedDocuments", "embedQuery", "chat"

vars == << pc, exitCode, error, documents, vectorStore, built, rlClosed,
           stdinEnded, userPrompt, firstLine, input, exec, iterations,
           modelCalls, toolRequests, searchCalls, scores, observation, result,
           shown, prompts, invokes, printed, network >>

ioVars == << rlClosed, stdinEnded, userPrompt, firstLine, input, shown,
             prompts, invokes, printed >>

turnVars == << exec, iterations, modelCalls, toolRequests, searchCalls,
               scores, observation, result >>

Init ==
    /\ pc = "start"
    /\ exitCode = -1
    /\ error = "none"
    /\ documents = <<>>
    /\ vectorStore = <<>>
    /\ built = 0
    /\ rlClosed = FALSE
    /\ stdinEnded = FALSE
    /\ userPrompt = NoLine
    /\ firstLine = NoLine
    /\ input = NoLine
    /\ exec = "idle"
    /\ iterations = 0
    /\ modelCalls = 0
    /\ toolRequests = 0
    /\ searchCalls = 0
    /\ scores = <<>>
    /\ observation = <<>>
    /\ result = "none"
    /\ shown = "none"
    /\ prompts = 0
    /\ invokes = 0
    /\ printed = 0
    /\ network = {}

\* ------------------------------------------------------------ process exit

\* Mutant of Fatal: the rejection is swallowed and the process ends normally.
FatalSwallowed(kind) ==
    /\ pc' = "exited"
    /\ exitCode' = 0
    /\ error' = kind

\* Line 110, main(): nothing catches what main() throws, so an error escapes
\* as an unhandled rejection (an uncaught exception during module
\* evaluation), which Node reports on standard error and ends the process
\* with exit code 1.
Fatal(kind) ==
    /\ pc' = "exited"
    /\ exitCode' = 1
    /\ error' = kind

\* ----------------------------------------------------------------- startup

\* Lines 47-51: the chat model is constructed while the module is evaluated;
\* without a credential the constructor throws.
ConstructModel ==
    /\ pc = "start"
    /\ \/ /\ pc' = "load"
          /\ UNCHANGED << exitCode, error >>
       \/ Fatal("credential")
    /\ UNCHANGED << documents, vectorStore, built, network >>
    /\ UNCHANGED ioVars
    /\ UNCHANGED turnVars

\* Lines 16-24 and 65: read the transactions file and split it into chunks.
loadTransactionChunks ==
    /\ pc = "load"
    /\ \/ /\ \E n \in 0..MaxDocs : documents' = Chunks(n)
          /\ pc' = "embed"
          /\ UNCHANGED << exitCode, error >>
       \/ /\ Fatal("file")
          /\ UNCHANGED documents
    /\ UNCHANGED << vectorStore, built, network >>
    /\ UNCHANGED ioVars
    /\ UNCHANGED turnVars

\* Lines 27-31 and 66: embed the chunks and build the index; when that
\* succeeds, lines 67-96: create the tool, the agent, the executor and the
\* readline interface, print the banner and issue the first prompt.
createVectorStore ==
    /\ pc = "embed"
    /\ network' = network \cup {"embedDocuments"}
    /\ \/ /\ vectorStore' = documents
          /\ built' = built + 1
          /\ shown' = "banner"
          /\ prompts' = prompts + 1
          /\ pc' = "prompt"
          /\ UNCHANGED << exitCode, error >>
       \/ /\ Fatal("embedding")
          /\ UNCHANGED << vectorStore, built, shown, prompts >>
    /\ UNCHANGED << documents, rlClosed, stdinEnded, userPrompt,
                    firstLine, input, invokes, printed >>
    /\ UNCHANGED turnVars

\* ------------------------------------------------------------------- shell

\* Lines 96-102 and 107: the prompt is answered with a line.  The exit
\* keyword ends the loop, closes readline and lets main() return; any other
\* line starts a turn.
ReadLine ==
    /\ pc = "prompt"
    /\ ~rlClosed
    /\ \E line \in InputLines :
        /\ userPrompt' = line
        /\ firstLine' = IF firstLine = NoLine THEN line ELSE firstLine
        /\ IF IsExit(line)
           THEN /\ shown' = "goodbye"
                /\ rlClosed' = TRUE
                /\ pc' = "exited"
                /\ exitCode' = 0
                /\ UNCHANGED << input, invokes >>
                /\ UNCHANGED turnVars
           ELSE /\ invokes < MaxTurns
                /\ input' = line
                /\ invokes' = invokes + 1
                /\ pc' = "awaitInvoke"
                /\ exec' = "plan"
                /\ iterations' = 0
                /\ modelCalls' = 0
                /\ toolRequests' = 0
                /\ searchCalls' = 0
                /\ scores' = <<>>
                /\ observation' = <<>>
                /\ result' = "none"
                /\ UNCHANGED << shown, rlClosed, exitCode >>
    /\ UNCHANGED << error, documents, vectorStore, built, stdinEnded, prompts,
                    printed, network >>

\* Standard input ends.  readline closes its interface.  At a prompt the
\* pending question is never answered: main() stays suspended, nothing keeps
\* the event loop alive and the process ends with exit code 0.  During a
\* turn the pending network calls keep the process alive.
StdinEnd ==
    /\ ~stdinEnded
    /\ ~rlClosed
    /\ pc \in {"prompt", "awaitInvoke"}
    /\ stdinEnded' = TRUE
    /\ rlClosed' = TRUE
    /\ IF pc = "prompt"
       THEN /\ pc' = "exited"
            /\ exitCode' = 0
       ELSE UNCHANGED << pc, exitCode >>
    /\ UNCHANGED << error, documents, vectorStore, built, userPrompt,
                    firstLine, input, shown, prompts, invokes, printed,
                    network >>
    /\ UNCHANGED turnVars

\* ---------------------------------------------------------------- executor

\* Mutant of shouldContinue: the ceiling is tested one iteration late.
shouldContinueOffByOne(it) == it <= maxIterations

\* Lines 75-80: the executor iterates while the iteration count is below
\* maxIterations.
shouldContinue(it) == it < maxIterations

\* Lines 69-80 and 102: one pass of the executor's loop up to the model's
\* decision.  Below the ceiling the chat model is called and either answers,
\* requests the tool or fails; at the ceiling the executor stops with its
\* fallback output ('Agent stopped due to max iterations.').
Plan ==
    /\ exitCode = -1
    /\ exec = "plan"
    /\ IF shouldContinue(iterations)
       THEN /\ network' = network \cup {"chat"}
            /\ modelCalls' = modelCalls + 1
            /\ \/ /\ exec' = "done"
                  /\ result' = "answer"
                  /\ UNCHANGED toolRequests
               \/ /\ exec' = "tool"
                  /\ toolRequests' = toolRequests + 1
                  /\ UNCHANGED result
               \/ /\ exec' = "failed"
                  /\ UNCHANGED << result, toolRequests >>
       ELSE /\ exec' = "done"
            /\ result' = "fallback"
            /\ UNCHANGED << network, modelCalls, toolRequests >>
    /\ UNCHANGED << pc, exitCode, error, documents, vectorStore, built,
                    iterations, searchCalls, scores, observation >>
    /\ UNCHANGED ioVars

\* Mutant of ToolExec: the requested tool is not run (it is missing from the
\* executor's tools) and the model is told so.
ToolExecNotRun ==
    /\ exitCode = -1
    /\ exec = "tool"
    /\ observation' = <<>>
    /\ iterations' = iterations + 1
    /\ exec' = "plan"
    /\ UNCHANGED << pc, exitCode, error, documents, vectorStore, built,
                    modelCalls, toolRequests, searchCalls, scores, result,
                    network >>
    /\ UNCHANGED ioVars

\* Mutant of ToolExec: the tool adds its input to the index it searches.
ToolExecAddsInput ==
    /\ exitCode = -1
    /\ exec = "tool"
    /\ searchCalls' = searchCalls + 1
    /\ network' = network \cup {"embedQuery"}
    /\ vectorStore' = Append(vectorStore, input)
    /\ \E sc \in [DOMAIN vectorStore -> Scores] :
          observation' = func(vectorStore, sc)
    /\ iterations' = iterations + 1
    /\ exec' = "plan"
    /\ UNCHANGED << pc, exitCode, error, documents, built, modelCalls,
                    toolRequests, scores, result >>
    /\ UNCHANGED ioVars

\* Lines 34-44 and 77: the executor runs the tool the model requested.  func
\* calls vectorStore.similaritySearch once, which embeds the input (one
\* request to the embedding service) and ranks the chunks.  When the search
\* fails the agent runtime either goes on with an empty observation or lets
\* the error reject executor.invoke, depending on its version.
ToolExec ==
    /\ exitCode = -1
    /\ exec = "tool"
    /\ searchCalls' = searchCalls + 1
    /\ network' = network \cup {"embedQuery"}
    /\ \/ /\ \E sc \in [DOMAIN vectorStore -> Scores] :
                observation' = func(vectorStore, sc)
          /\ iterations' = iterations + 1
          /\ exec' = "plan"
       \/ /\ observation' = <<>>
          /\ iterations' = iterations + 1
          /\ exec' = "plan"
       \/ /\ exec' = "failed"
          /\ UNCHANGED << iterations, observation >>
    /\ UNCHANGED << pc, exitCode, error, documents, vectorStore, built,
                    modelCalls, toolRequests, scores, result >>
    /\ UNCHANGED ioVars

\* Mutant of AwaitInvoke: executor.invoke is not awaited.
AwaitInvokeMissing(e) == e \in {"plan", "tool", "done"}

\* Line 102: await executor.invoke(...) resumes main() when the call has
\* produced its result.
AwaitInvoke(e) == e = "done"

\* Lines 102-105 and 96: executor.invoke resolves; the result is printed and
\* the loop asks the next question.  rl.question on a closed interface throws
\* ERR_USE_AFTER_CLOSE, which nothing catches.
InvokeResolved ==
    /\ pc = "awaitInvoke"
    /\ AwaitInvoke(exec)
    /\ printed' = printed + 1
    /\ shown' = result
    /\ exec' = IF exec = "done" THEN "idle" ELSE exec
    /\ IF rlClosed
       THEN /\ Fatal("readline")
            /\ UNCHANGED prompts
       ELSE /\ prompts' = prompts + 1
            /\ pc' = "prompt"
            /\ UNCHANGED << exitCode, error >>
    /\ UNCHANGED << documents, vectorStore, built, rlClosed, stdinEnded,
                    userPrompt, firstLine, input, invokes, iterations,
                    modelCalls, toolRequests, searchCalls, scores,
                    observation, result, network >>

\* Lines 102 and 110: executor.invoke rejects; no try/catch encloses the
\* call, so main() rejects.
InvokeRejected ==
    /\ pc = "awaitInvoke"
    /\ exec = "failed"
    /\ Fatal("turn")
    /\ UNCHANGED << documents, vectorStore, built, network >>
    /\ UNCHANGED ioVars
    /\ UNCHANGED turnVars

\* ----------------------------------------------------------- specifications

Next ==
    \/ ConstructModel
    \/ loadTransactionChunks
    \/ createVectorStore
    \/ ReadLine
    \/ StdinEnd
    \/ Plan
    \/ ToolExec
    \/ InvokeResolved
    \/ InvokeRejected

Spec == Init /\ [][Next]_vars

\* The retrieval tool as a function: every index of up to MaxChunks chunks
\* and every scoring of its chunks by a query.
InitTool ==
    /\ pc = "tool"
    /\ exitCode = -1
    /\ error = "none"
    /\ \E n \in 0..MaxChunks :
          /\ documents = Chunks(n)
          /\ vectorStore = Chunks(n)
          /\ scores \in [1..n -> Scores]
    /\ built = 1
    /\ rlClosed = FALSE
    /\ stdinEnded = FALSE
    /\ userPrompt = <<"q">>
    /\ firstLine = <<"q">>
    /\ input = <<"q">>
    /\ exec = "tool"
    /\ iterations = 0
    /\ modelCalls = 1
    /\ toolRequests = 1
    /\ searchCalls = 0
    /\ observation = <<>>
    /\ result = "none"
    /\ shown = "banner"
    /\ prompts = 1
    /\ invokes = 1
    /\ printed = 0
    /\ network = {"embedDocuments", "chat"}

\* Lines 39-42: one call of the tool's func with the scores the query gives.
InvokeTool ==
    /\ pc = "tool"
    /\ observation' = func(vectorStore, scores)
    /\ searchCalls' = searchCalls + 1
    /\ pc' = "toolDone"
    /\ UNCHANGED << exitCode, error, documents, vectorStore, built, exec,
                    iterations, modelCalls, toolRequests, scores, result,
                    network >>
    /\ UNCHANGED ioVars

NextTool == InvokeTool

SpecTool == InitTool /\ [][NextTool]_vars

\* ------------------------------------------------------------------- claims

\* C1: a turn whose orchestrator call fails is caught at the turn boundary
\* and does not terminate the shell: once executor.invoke has rejected and
\* main() has seen it, the process is still running, at the next prompt.
C1_TurnErrorCaught ==
    (exec = "failed" /\ pc # "awaitInvoke") => (exitCode = -1 /\ pc = "prompt")

\* The line is the exit keyword in some letter case.
AnyCaseExit(line) ==
    /\ Len(line) = 4
    /\ line[1] \in {"e", "E"}
    /\ line[2] \in {"x", "X"}
    /\ line[3] \in {"i", "I"}
    /\ line[4] \in {"t", "T"}

\* C2 as stated: when the first input line is the exit keyword in any letter
\* case, the run has ended with exit code 0 and no network call was made at
\* any point of it.
C2_ExitFirstNoNetworkCall ==
    AnyCaseExit(firstLine) =>
        (pc = "exited" /\ exitCode = 0 /\ network = {})

\* C2 as amended: when the first input line is the exit keyword in any
\* letter case, the run has ended with exit code 0, the chat model was never
\* called and the index never queried; the only network call of the run is
\* the startup call that embeds the chunks to build the index.
C2_ExitFirstOnlyStartupEmbedding ==
    AnyCaseExit(firstLine) =>
        /\ pc = "exited"
        /\ exitCode = 0
        /\ shown = "goodbye"
        /\ invokes = 0
        /\ network = {"embedDocuments"}

C2_Witness ==
    /\ firstLine = <<"E", "X", "I", "T">>
    /\ pc = "exited"
    /\ network # {}

C4_StartupFailureFatal ==
    error \in {"credential", "file", "embedding"} =>
        /\ pc = "exited"
        /\ exitCode > 0
        /\ prompts = 0
        /\ invokes = 0
        /\ exec = "idle"
        /\ shown = "none"

C4_Witness ==
    /\ error = "embedding"
    /\ pc = "exited"
    /\ documents # <<>>

\* C5: when standard input has ended, at a prompt or during a turn, and no
\* turn failed, the process ends with exit code 0 and without an error.
C5_EndOfInputExitsZero ==
    (stdinEnded /\ pc = "exited" /\ exec # "failed") =>
        (exitCode = 0 /\ error = "none")

\* C6: in every turn the index query is called once per tool call the model
\* requested: between the executor's steps the two counts are equal (the
\* request being served is the one not yet counted), so a turn answered
\* directly has no query and a turn with one request has exactly one.
C6_OneSearchPerToolRequest ==
    pc # "tool" /\ pc # "toolDone" =>
        IF exec = "tool"
        THEN searchCalls + 1 = toolRequests
        ELSE searchCalls = toolRequests

C6_Witness ==
    /\ exec = "done"
    /\ result = "answer"
    /\ modelCalls = 2
    /\ toolRequests = 1
    /\ searchCalls = 1

\* Position of chunk i in the index's order for the query: one more than the
\* number of chunks that are more similar, or as similar and inserted before.
Rank(i) ==
    1 + Cardinality({ j \in DOMAIN vectorStore :
                        scores[j] > scores[i] \/ (scores[j] = scores[i] /\ j < i) })

\* The chunk at position p of the index's order.
Ranked(p) == vectorStore[CHOOSE i \in DOMAIN vectorStore : Rank(i) = p]

\* Number of chunks one invocation returns.
Returned == IF Len(vectorStore) < 5 THEN Len(vectorStore) ELSE 5

\* Where the p-th returned chunk starts in the tool's output, counted from 0.
RECURSIVE Offset(_)
Offset(p) == IF p = 1 THEN 0 ELSE Offset(p - 1) + Len(Ranked(p - 1)) + 5

\* C7: one invocation of the tool returns the first min(5, n) chunks of the
\* index's order for the query (most similar first), each verbatim, with
\* '\n---\n' between consecutive chunks and nothing else.
C7_ToolReturnsTopFiveJoined ==
    pc = "toolDone" =>
        /\ Len(observation) =
              IF Returned = 0 THEN 0
              ELSE Offset(Returned) + Len(Ranked(Returned))
        /\ \A p \in 1..Returned :
              /\ SubSeq(observation, Offset(p) + 1, Offset(p) + Len(Ranked(p))) = Ranked(p)
              /\ p < Returned =>
                    SubSeq(observation, Offset(p) + Len(Ranked(p)) + 1,
                           Offset(p) + Len(Ranked(p)) + 5) = <<"\n", "-", "-", "-", "\n">>

C7_Witness ==
    /\ pc = "toolDone"
    /\ Len(vectorStore) = 6
    /\ scores[6] > scores[5]
    /\ scores[5] > scores[1]
    /\ observation # <<>>

\* C8: the index is built once, before the first prompt, from the chunks
\* loaded at startup, and once built it never changes: no turn, tool
\* invocation or failed turn adds, removes or changes a chunk.
C8_ChunksFixed ==
    /\ [](built <= 1 /\ (prompts > 0 => (built = 1 /\ vectorStore = documents)))
    /\ [][built >= 1 => (vectorStore' = vectorStore /\ built' = built)]_vars

C8_Witness ==
    /\ built = 1
    /\ Len(vectorStore) = 2
    /\ invokes = 2
    /\ printed = 1
    /\ searchCalls >= 1
    /\ exec = "failed"

\* C9: a call of the orchestrator or of the tool is in progress only while
\* main() awaits it, at most one call is unfinished at any time, and a
\* prompt is shown only when the result of every earlier turn was printed.
C9_StrictlySequential ==
    /\ exec \in {"plan", "tool"} => pc \in {"awaitInvoke", "tool", "toolDone"}
    /\ invokes - printed \in {0, 1}
    /\ pc = "prompt" => (printed = invokes /\ prompts = invokes + 1)
    /\ pc = "awaitInvoke" => (printed + 1 = invokes /\ prompts = invokes)

C9_Witness ==
    /\ pc = "prompt"
    /\ invokes = 2
    /\ printed = 2
    /\ prompts = 3
    /\ searchCalls >= 1

\* String.prototype.trim for the model's alphabet, used to state C10.
RECURSIVE TrimLeft(_)
TrimLeft(s) == IF s # <<>> /\ s[1] = " " THEN TrimLeft(Tail(s)) ELSE s

RECURSIVE TrimRight(_)
TrimRight(s) ==
    IF s # <<>> /\ s[Len(s)] = " " THEN TrimRight(SubSeq(s, 1, Len(s) - 1)) ELSE s

Trim(s) == TrimRight(TrimLeft(s))

\* C10: the line read is trimmed, and the trimmed line decides: when it is
\* the exit keyword in any letter case the shell has terminated, and
\* otherwise the line was forwarded to the orchestrator as a turn.
C10_TrimmedLineDecides ==
    userPrompt # NoLine =>
        IF toLowerCase(Trim(userPrompt)) = EXIT
        THEN pc = "exited" /\ shown = "goodbye"
        ELSE input \in {userPrompt, Trim(userPrompt)}

====
